---- MODULE Spec2Model ----
(***************************************************************************)
(* requru: an HTTP session that routes requests through proxy providers,   *)
(* retrying per provider and per session (src/src/requru/session.py).      *)
(*                                                                         *)
(* One logical request is one call of Session.request.  The model follows  *)
(* the call from one wait on the network to the next: every action is the  *)
(* code between two transport sends, or between a send and the fetch of    *)
(* the remote server list inside an acquisition; the outcome of a send and *)
(* the answer of the remote list are the environment's choice.             *)
(*                                                                         *)
(* The variables named as in the source are the Session's attributes and   *)
(* the locals of request and request_with_providers.  The others record    *)
(* what a request has done so far: sends, acquisitions, sleeps, the state  *)
(* of the adapters, the exception of the last send (raised) and the one    *)
(* that left the request on the way to a send (acquire_raised: what        *)
(* get_proxy raised, or the AttributeError of line 65), the provider and   *)
(* the caller's verdict of every send (log), the providers entered         *)
(* (visited), the last response obtained and the endpoint of the last      *)
(* successful attempt (success_proxy).  An acquisition changes the class   *)
(* attributes of the provider asked: the pool, the cursor and the stamp of *)
(* Nordvpn, the cursor and the endpoint list of the Proxyrack provider.    *)
(* The clock stands still while a session runs.                            *)
(***************************************************************************)
EXTENDS Integers, Sequences, FiniteSets, TLC

(***************************************************************************)
(* Bounds of the model.                                                    *)
(***************************************************************************)
MaxProviders == 2          \* longest provider list
MaxProviderRetries == 2    \* largest provider.max_retries
MaxSessionRetries == 3     \* largest Session.max_retries
MaxEarlierCalls == 1       \* calls of a Proxyrack provider before a request

(***************************************************************************)
(* Providers.  A provider is a class with a strength and a paradigm, the   *)
(* attributes of ProxyrackProvider and Nordvpn.  Neither class defines the *)
(* attribute max_retries that request_with_providers reads at lines 65 and *)
(* 102: a provider has it when the caller's class, derived from one of the *)
(* two, adds it together with the method get_proxy that hands the call to  *)
(* get_new_proxy.  Strengths are the source's floats times ten.            *)
(***************************************************************************)
ProxyrackStrength == 8
NordvpnStrength == 2

ProviderClasses == {"Proxyrack", "Nordvpn"}

strength(class) == IF class = "Proxyrack" THEN ProxyrackStrength ELSE NordvpnStrength

paradigm(class) == IF class = "Proxyrack" THEN "DNS" ELSE "DIRECT"

\* The class has no attribute max_retries: the two classes as they are.
NoMaxRetries == 0

Providers ==
    [class : ProviderClasses, max_retries : {NoMaxRetries} \cup 1..MaxProviderRetries]

RECURSIVE SeqsUpTo(_, _)
SeqsUpTo(S, n) ==
    IF n = 0 THEN {<<>>}
    ELSE LET shorter == SeqsUpTo(S, n - 1)
         IN  shorter \cup {Append(s, x) : s \in shorter, x \in S}

ProviderLists == SeqsUpTo(Providers, MaxProviders)

(***************************************************************************)
(* Responses.  A response is its status code; None is Python's None.       *)
(***************************************************************************)
Statuses == {200, 304, 404}
TransportErrors == {"ConnectionError", "ChunkedEncodingError"}

\* What one transport send can do: answer with a status, or raise.
Outcomes ==
    {[raises |-> "", status |-> status] : status \in Statuses}
    \cup {[raises |-> e, status |-> 0] : e \in TransportErrors}

Raises(outcome) == outcome.raises \in TransportErrors

None == 0
NoProvider == 0
\* self.proxies = {}: no endpoint.  An endpoint is its host and its port.
NoProxy == <<"", 0>>

\* requests.Response.__bool__ is Response.ok: the status is below 400.
Truthy(resp) == resp # None /\ resp < 400

\* The success predicate is a constructor argument; the default accepts 2xx.
Predicates == {"default", "accept_404"}

IsSuccessful(pred, resp) ==
    IF pred = "default"
    THEN 200 <= resp /\ resp < 300
    ELSE (200 <= resp /\ resp < 300) \/ resp = 404

VARIABLES
    sticky_proxies, retry_on_failure, max_retries, proxy_providers,
    is_successful_response,
    _retries, _last_successful_provider, proxies,
    pc, proxies_param, r, sorted_providers, idx, provider_retries, result,
    sends, acquisitions, sleeps, adapters,
    raised, log, visited, last_response, success_proxy, acquire_raised,
    \* Nordvpn (src/src/requru/nordvpn.py): class attributes, the clock, the
    \* position in get_new_proxy, the remote answer until the call that fetched
    \* it returns a host or another call starts, and what the last call did
    proxy_domains, _index, updated_at, now, ticks,
    nord_pc, nord_resp, contacted, nord_raised, issued,
    \* ProxyrackProvider (src/src/requru/proxyrack.py): the constructor's
    \* arguments (the options as the string lines 44-47 make of them), the
    \* class cursor, the endpoints handed out, what the last get_new_proxy
    \* raised, the position in close, the release calls close has issued and
    \* how it ended
    use_sticky_ports, force_port, option_str, _sticky_ports_index, _proxies,
    proxy_raised, rack_pc, close_pos, release_calls, rack_raised,
    \* the calls of get_new_proxy made on that provider; a second provider of
    \* the process, with sticky ports: its options, its list of endpoints and
    \* the calls made on it; the sticky ports returned to callers so far, by
    \* either provider, in the order of the calls
    calls, peer_option_str, peer_proxies, peer_calls, sticky_issued,
    \* Concurrent callers of get_new_proxy: for each caller of
    \* Nordvpn.get_new_proxy and of ProxyrackProvider.get_new_proxy its
    \* position in the call, the cursor it read, and the endpoint it picked
    nord_call, rack_call

config == <<sticky_proxies, retry_on_failure, max_retries, proxy_providers,
            is_successful_response>>
session == <<_retries, _last_successful_provider, proxies>>
locals == <<pc, proxies_param, r, sorted_providers, idx, provider_retries,
            result>>
ghosts == <<sends, acquisitions, sleeps, adapters, raised, log, visited,
            last_response, success_proxy, acquire_raised>>
nordvpn == <<proxy_domains, _index, updated_at, now, ticks, nord_pc, nord_resp, contacted,
             nord_raised, issued>>
proxyrack == <<use_sticky_ports, force_port, option_str, _sticky_ports_index,
               _proxies, proxy_raised, rack_pc, close_pos, release_calls,
               rack_raised, calls, peer_option_str, peer_proxies, peer_calls,
               sticky_issued>>
callers == <<nord_call, rack_call>>
vars == <<config, session, locals, ghosts, nordvpn, proxyrack, callers>>

(***************************************************************************)
(* sorted(self.proxy_providers, key=strength, reverse=True): a stable sort, *)
(* so equal strengths keep their order in the list.  The result is the     *)
(* sequence of positions in proxy_providers.                               *)
(***************************************************************************)
RECURSIVE SortFrom(_, _)
SortFrom(list, rest) ==
    IF rest = {} THEN <<>>
    ELSE LET first == CHOOSE i \in rest : \A j \in rest :
                          \/ strength(list[i].class) > strength(list[j].class)
                          \/ /\ strength(list[i].class) = strength(list[j].class)
                             /\ i <= j
         IN  <<first>> \o SortFrom(list, rest \ {first})

\* The sort with reverse=True left out: weakest provider first.
RECURSIVE SortAscendingFrom(_, _)
SortAscendingFrom(list, rest) ==
    IF rest = {} THEN <<>>
    ELSE LET first == CHOOSE i \in rest : \A j \in rest :
                          \/ strength(list[i].class) < strength(list[j].class)
                          \/ /\ strength(list[i].class) = strength(list[j].class)
                             /\ i <= j
         IN  <<first>> \o SortAscendingFrom(list, rest \ {first})

SortedProvidersAscending(list) == SortAscendingFrom(list, DOMAIN list)

SortedProviders(list) == SortFrom(list, DOMAIN list)

\* super().request(...): a response, or the old value of r when the send raises.
SuperRequest(outcome, old) ==
    IF Raises(outcome) THEN old ELSE outcome.status

\* lines 76-83 and reset_adapters, lines 45-48: both except clauses mount new
\* adapters; a send that is answered leaves the mounted ones in use.
AdaptersAfter(outcome) == IF Raises(outcome) THEN "fresh" ELSE "used"

\* line 86: success = self.is_successful_response(r) if r is not None else False
Success(resp) ==
    IF resp # None THEN IsSuccessful(is_successful_response, resp) ELSE FALSE

\* The return condition with the success test left out.
ShouldReturnIgnoringSuccess(n, success) ==
    ~retry_on_failure \/ n >= max_retries

\* The return condition with the session budget left out.
ShouldReturnWithoutCeiling(n, success) ==
    ~retry_on_failure \/ success

\* lines 96-100
ShouldReturn(n, success) ==
    ~retry_on_failure \/ n >= max_retries \/ success

\* The provider's budget granting one attempt more.
ProviderExhaustedOneLate(tries, provider) ==
    tries > proxy_providers[provider].max_retries

\* line 102
ProviderExhausted(tries, provider) ==
    tries >= proxy_providers[provider].max_retries

\* The acquisition inside a turn asked for sticky sessions only.
ShouldGetNewProxyStickyOnly(provider) ==
    sticky_proxies

\* lines 115-118
ShouldGetNewProxy(provider) ==
    sticky_proxies
    \/ (~sticky_proxies /\ paradigm(proxy_providers[provider].class) = "DIRECT")

\* The test of the sticky-reuse step without the success predicate.
StickySuccessAnyResponse(resp) ==
    Truthy(resp)

\* line 232: if r and self.is_successful_response(r)
StickySuccess(resp) ==
    Truthy(resp) /\ IsSuccessful(is_successful_response, resp)

\* line 259: if not self.retry_on_failure or (r and self.is_successful_response(r))
NoProviderReturn(resp) ==
    ~retry_on_failure \/ (Truthy(resp) /\ IsSuccessful(is_successful_response, resp))

\* line 246: while self._retries < self.max_retries and not self.proxy_providers
NoProviderLoop(n) == n < max_retries /\ proxy_providers = <<>>

\* request_with_providers ends without a return statement when the for loop
\* runs out of providers: the call evaluates to None.
ProvidersExhaustedValue(resp) == None

\* The check of line 187 left out.
ConfigurationErrorNever(proxies_arg) == FALSE

\* line 187: if proxies and self.proxy_providers
ConfigurationError(proxies_arg) == proxies_arg /\ proxy_providers # <<>>

\* line 216: if self._last_successful_provider and self.sticky_proxies
StickyReuse == _last_successful_provider # NoProvider /\ sticky_proxies

\* Session.__init__, lines 20-43.
SessionInit ==
    /\ sticky_proxies \in BOOLEAN
    /\ retry_on_failure \in BOOLEAN
    /\ max_retries \in 1..MaxSessionRetries
    /\ proxy_providers \in ProviderLists
    /\ is_successful_response \in Predicates
    /\ _retries = 0
    /\ _last_successful_provider = NoProvider
    /\ proxies = NoProxy
    /\ pc = "idle"
    /\ proxies_param = FALSE
    /\ r = None
    /\ sorted_providers = <<>>
    /\ idx = 0
    /\ provider_retries = 0
    /\ result = None
    /\ sends = 0
    /\ acquisitions = 0
    /\ sleeps = 0
    /\ adapters = "fresh"
    /\ raised = ""
    /\ log = <<>>
    /\ visited = <<>>
    /\ last_response = None
    /\ success_proxy = NoProxy
    /\ acquire_raised = ""

-----------------------------------------------------------------------------
\* Nordvpn, src/src/requru/nordvpn.py.

\* Bounds of the Nordvpn model: names of the hardcoded list that are kept,
\* and advances of the clock.
FallbackSize == 3
MaxTicks == 2

\* line 15
TTL == 3600
\* line 18
DEFAULT_PORT == 89
\* line 36, the defaults of min_load and max_load
MinLoad == 1
MaxLoad == 60

\* line 21-29
EXAMPLE_PROXY_URLS ==
    << "cl33.nordvpn.com", "cl34.nordvpn.com", "cl35.nordvpn.com",
       "cl36.nordvpn.com", "cl37.nordvpn.com", "ar56.nordvpn.com",
       "ar58.nordvpn.com" >>

\* The hardcoded list as the model carries it: its first FallbackSize names,
\* so that the orders random.shuffle can produce stay enumerable.
ExampleProxyUrls == SubSeq(EXAMPLE_PROXY_URLS, 1, FallbackSize)

\* Hostnames the remote endpoint can list.
RemoteHosts == {"a", "b", "c"}

\* One entry of the remote list, the fields line 46 reads.  The loads sit on
\* both default limits, next to them, and well inside and outside them.
ServerEntries ==
    [status : {"online"}, load : {0, 1, 10, 60, 61, 80}]
        \cup [status : {"offline"}, load : {5}]

\* What requests.get(API_URL).json() of line 42 can give: a list of entries
\* (kept as a map from hostname to entry: line 56 shuffles the order away), a
\* body that is not JSON, no answer at all, a list with an entry that lacks
\* a field lines 46-48 read, or a JSON body that is no list (null).
NoServers == [h \in {} |-> [status |-> "offline", load |-> 5]]
ListAnswers ==
    {[kind |-> "list", servers |-> m] :
        m \in UNION {[H -> ServerEntries] : H \in SUBSET RemoteHosts}}
FailedAnswers ==
    {[kind |-> k, servers |-> NoServers] :
        k \in {"not_json", "unreachable", "missing_field", "not_a_list"}}
Answers == ListAnswers \cup FailedAnswers
NoAnswer == [kind |-> "none", servers |-> NoServers]

Range(seq) == {seq[i] : i \in DOMAIN seq}

\* random.shuffle, line 56: every order of the same elements.
Shuffles(S) ==
    {f \in [1..Cardinality(S) -> S] : \A i, j \in DOMAIN f : i # j => f[i] # f[j]}

\* The freshness test with >= in place of >.
NeedsRefreshAtTTL(pool, clock, stamp) ==
    pool = << >> \/ (clock - stamp) >= TTL

\* lines 37-40
NeedsRefresh(pool, clock, stamp) ==
    pool = << >> \/ (clock - stamp) > TTL

\* The load filter with the upper limit excluded.
FilteredServersBelowMax(answer, min_load, max_load) ==
    {h \in DOMAIN answer.servers :
        /\ answer.servers[h].status = "online"
        /\ min_load <= answer.servers[h].load
        /\ answer.servers[h].load < max_load}

\* lines 43-48: hostnames of the entries that pass the filter
FilteredServers(answer, min_load, max_load) ==
    {h \in DOMAIN answer.servers :
        /\ answer.servers[h].status = "online"
        /\ min_load <= answer.servers[h].load
        /\ answer.servers[h].load <= max_load}

\* The except clause leaving the pool as it was.
FetchedPoolWithoutFallback(answer, pool) ==
    IF answer.kind = "list" THEN FilteredServers(answer, MinLoad, MaxLoad)
    ELSE Range(pool)

\* lines 41-54: the hostnames the pool holds when the finally clause starts.
\* Only JSONDecodeError is handled; any other exception leaves the pool alone.
FetchedPool(answer, pool) ==
    IF answer.kind = "list" THEN FilteredServers(answer, MinLoad, MaxLoad)
    ELSE IF answer.kind = "not_json" THEN Range(ExampleProxyUrls)
    ELSE Range(pool)

\* lines 41-55: the exception that leaves get_best_server_domains
FetchRaises(answer) ==
    IF answer.kind = "unreachable" THEN "ConnectionError"
    ELSE IF answer.kind = "missing_field" THEN "KeyError"
    ELSE IF answer.kind = "not_a_list" THEN "TypeError"
    ELSE ""

\* The cursor advanced without wrapping.
NextIndexUnwrapped(i, n) == i + 1

\* line 66
NextIndex(i, n) == (i + 1) % n

\* class attributes, lines 13-17; the clock starts later than TTL after 0
NordvpnInit ==
    /\ proxy_domains = << >>
    /\ _index = 0
    /\ updated_at = 0
    /\ now = TTL + 1
    /\ ticks = 0
    /\ nord_pc = "idle"
    /\ nord_resp = NoAnswer
    /\ contacted = FALSE
    /\ nord_raised = ""
    /\ issued = << >>

-----------------------------------------------------------------------------
\* ProxyrackProvider, src/src/requru/proxyrack.py.

\* Bound of the Proxyrack model: calls of get_new_proxy on one provider.
MaxCalls == 3

\* Bound: calls of get_new_proxy on the second provider.
MaxPeerCalls == 2

\* line 24
DNS == "premium.residential.proxyrack.net"
\* line 25
random_port == 9000
\* line 26: range(10000, 14000)
FirstStickyPort == 10000
StickyPortsEnd == 14000
sticky_ports == [i \in 1..(StickyPortsEnd - FirstStickyPort) |-> FirstStickyPort + i - 1]

\* force_port = None, line 34
NoPort == 0

\* lines 44-47: the options joined into one string.  It is empty when every
\* field of the options is None; the defaults of ProxyrackOptions (lines
\* 15-17) give a refresh window and a session id.
DefaultOptionStr == "refreshMinutes-1440-session-s"
OptionStrs == {"", DefaultOptionStr}

\* lines 48-49 and 62: final_option_str is bound only for a non-empty option
\* string, and line 62 reads it.
BuildRaisesFor(options) == IF options = "" THEN "UnboundLocalError" ELSE ""

BuildRaises == BuildRaisesFor(option_str)

\* What the release call of lines 70-72 can do.
ReleaseOutcomes == {"released", "ConnectionError"}

\* The sticky rotation tested before the forced port.
NextPortStickyFirst ==
    IF use_sticky_ports THEN sticky_ports[_sticky_ports_index + 1]
    ELSE IF force_port # NoPort THEN force_port
    ELSE random_port

\* lines 51-60: the port of the next endpoint
NextPort ==
    IF force_port # NoPort THEN force_port
    ELSE IF use_sticky_ports THEN sticky_ports[_sticky_ports_index + 1]
    ELSE random_port

\* lines 54-58: the class cursor after the acquisition
NextStickyIndex ==
    IF force_port = NoPort /\ use_sticky_ports
    THEN (_sticky_ports_index + 1) % Len(sticky_ports)
    ELSE _sticky_ports_index

\* lines 69-72: the release call sits in no try statement, so what it raises
\* leaves close.
CloseRaises(outcome) == IF outcome = "released" THEN "" ELSE outcome

\* ProxyrackProvider.__init__, lines 30-41, and the class attributes, lines
\* 21-28.  The cursor belongs to the class: providers made earlier in the
\* process may have moved it anywhere in the port list, its end included.
ProxyrackInit ==
    /\ use_sticky_ports \in BOOLEAN
    /\ force_port \in {NoPort, 8080}
    /\ option_str \in OptionStrs
    /\ _sticky_ports_index \in {0, Len(sticky_ports) - 1}
    /\ _proxies = << >>
    /\ proxy_raised = ""
    /\ rack_pc = "idle"
    /\ close_pos = 0
    /\ release_calls = << >>
    /\ rack_raised = ""
    /\ calls = 0
    /\ peer_option_str \in OptionStrs
    /\ peer_proxies = << >>
    /\ peer_calls = 0
    /\ sticky_issued = << >>

\* The provider with the defaults of its constructor, never used.
ProxyrackUnused ==
    /\ ProxyrackInit
    /\ ~use_sticky_ports /\ force_port = NoPort /\ _sticky_ports_index = 0
    /\ option_str = DefaultOptionStr /\ peer_option_str = DefaultOptionStr

-----------------------------------------------------------------------------
\* Concurrent callers of the two get_new_proxy methods.

\* Bound: threads that call one get_new_proxy at the same time.
MaxCallers == 2

Callers == 1..MaxCallers

\* No caller has entered get_new_proxy.
CallersIdle ==
    /\ nord_call = [t \in Callers |-> [pc |-> "idle", loaded |-> 0, host |-> ""]]
    /\ rack_call = [t \in Callers |-> [pc |-> "idle", loaded |-> 0, port |-> NoPort]]

\* The cursor written from whatever the cursor holds at the time of the write.
StoredIndexFromCurrent(loaded, current, n) == (current + 1) % n

\* nordvpn.py line 66, proxyrack.py lines 56-58: the value assigned to the
\* cursor is computed from the value the caller read before.
StoredIndex(loaded, current, n) == (loaded + 1) % n

\* The remote answers a session's acquisitions draw from: a list of two
\* servers that pass the filter, a list of none, and the answers that make
\* the fetch raise.  The body that is not JSON, which installs the hardcoded
\* list, is left to the Nordvpn model.
SessionAnswers ==
    {[kind |-> "list",
      servers |-> [h \in {"a", "b"} |-> [status |-> "online", load |-> 10]]],
     [kind |-> "list", servers |-> NoServers]}
    \cup {answer \in FailedAnswers : answer.kind # "not_json"}

\* Nordvpn.get_new_proxy, lines 64-70, on a pool and a cursor: the host at
\* the cursor and the cursor advanced, or IndexError on the empty pool.
\* seen is the hosts returned since the pool was installed.
NordvpnSelected(pool, cursor, stamp, asked, seen) ==
    IF pool = << >>
    THEN [raises |-> "IndexError", proxy |-> NoProxy, proxy_domains |-> pool,
          _index |-> cursor, updated_at |-> stamp, contacted |-> asked,
          issued |-> seen]
    ELSE [raises |-> "", proxy |-> <<pool[cursor + 1], DEFAULT_PORT>>,
          proxy_domains |-> pool, _index |-> NextIndex(cursor, Len(pool)),
          updated_at |-> stamp, contacted |-> asked,
          issued |-> IF Len(seen) <= Len(pool)
                     THEN Append(seen, pool[cursor + 1]) ELSE seen]

\* get_best_server_domains, lines 37-42: the remote list is asked for and
\* its answer has arrived; the pool is as it was.
FetchStarted(answer) ==
    /\ nord_pc' = "fetched"
    /\ nord_resp' = answer
    /\ contacted' = TRUE
    /\ nord_raised' = ""
    /\ UNCHANGED <<proxy_domains, _index, updated_at, now, ticks, issued>>

\* Nordvpn.get_new_proxy from the arrival of the remote answer on, lines
\* 43-59 and 64-70: the finally clause installs the shuffled pool, stamps it
\* and rewinds the cursor before anything the fetch raised leaves the call;
\* otherwise the first host of the new pool is returned.
NordvpnFetched(answer, order) ==
    IF FetchRaises(answer) # ""
    THEN [raises |-> FetchRaises(answer), proxy |-> NoProxy,
          proxy_domains |-> order, _index |-> 0, updated_at |-> now,
          contacted |-> TRUE, issued |-> << >>]
    ELSE NordvpnSelected(order, 0, now, TRUE, << >>)

\* Nordvpn.get_new_proxy, lines 61-70, on a pool that lines 37-40 find fresh:
\* the remote list is not asked for.
NordvpnGetNewProxy ==
    NordvpnSelected(proxy_domains, _index, updated_at, FALSE, issued)

\* The class attributes of Nordvpn after the call that gave got.
NordvpnCalled(got) ==
    /\ proxy_domains' = got.proxy_domains
    /\ _index' = got._index
    /\ updated_at' = got.updated_at
    /\ contacted' = got.contacted
    /\ issued' = got.issued
    /\ nord_raised' = got.raises
    /\ nord_resp' = NoAnswer
    /\ nord_pc' = "idle"
    /\ UNCHANGED <<now, ticks>>

\* ProxyrackProvider.get_new_proxy, lines 43-65, as one call: the endpoint
\* it returns, or what line 62 raises.
ProxyrackGetNewProxy ==
    [raises |-> BuildRaises,
     proxy |-> IF BuildRaises = "" THEN <<DNS, NextPort>> ELSE NoProxy]

\* lines 43-65: the cursor, the list of endpoints and the record of the call
\* after one call of get_new_proxy.  When line 62 raises, the cursor has
\* moved already and nothing is recorded or returned.
GetNewProxyCalled ==
    /\ calls' = calls + 1
    /\ _sticky_ports_index' = NextStickyIndex
    /\ proxy_raised' = BuildRaises
    /\ _proxies' = IF BuildRaises = "" THEN Append(_proxies, NextPort) ELSE _proxies
    /\ sticky_issued' = IF BuildRaises = "" /\ force_port = NoPort /\ use_sticky_ports
                        THEN Append(sticky_issued, NextPort)
                        ELSE sticky_issued
    /\ rack_pc' = "idle"
    /\ UNCHANGED <<use_sticky_ports, force_port, option_str, close_pos,
                   release_calls, rack_raised, peer_option_str, peer_proxies,
                   peer_calls>>

\* provider.get_proxy(sticky=...), called at session.py lines 68 and 120-122
\* outside every try statement, on a provider that has the method: the call
\* is the class's get_new_proxy (src/nordvpn.py, an earlier copy of Nordvpn
\* that defines no paradigm, has the same body under the name get_proxy,
\* lines 60-68).  The session's country is None, the constructor's default,
\* so the call gets no option besides sticky.  It returns the endpoint at
\* the cursor of the provider's class or raises.  This is the call that asks
\* no remote list; the one that does is split at the wait for the answer.
GetProxy(provider) ==
    IF proxy_providers[provider].class = "Nordvpn"
    THEN NordvpnGetNewProxy
    ELSE ProxyrackGetNewProxy

\* The call of get_proxy has to fetch the remote list first.
NeedsFetch(provider) ==
    /\ proxy_providers[provider].class = "Nordvpn"
    /\ NeedsRefresh(proxy_domains, now, updated_at)

\* The call of get_proxy that gave got: the request's record of it, and the
\* state of the provider's class after it.
Acquired(provider, got) ==
    /\ acquire_raised' = got.raises
    /\ acquisitions' = acquisitions + 1
    /\ IF proxy_providers[provider].class = "Nordvpn"
       THEN NordvpnCalled(got) /\ UNCHANGED proxyrack
       ELSE GetNewProxyCalled /\ UNCHANGED nordvpn

\* The call of get_proxy is made and waits at nordvpn.py line 42; the answer
\* of the remote list is the environment's choice.
FetchingProxy(provider) ==
    /\ acquisitions' = acquisitions + 1
    /\ \E answer \in SessionAnswers : FetchStarted(answer)
    /\ UNCHANGED <<acquire_raised, proxies, proxyrack>>

\* No provider of the session's list is a Proxyrack.
NoProxyrack ==
    \A i \in DOMAIN proxy_providers : proxy_providers[i].class # "Proxyrack"

\* The provider behind the session's Proxyrack class: made with or without
\* sticky ports, with the default options or with none, no port forced, the
\* class cursor at its start.  A session without a Proxyrack has the
\* provider of the constructor's defaults.
ProxyrackOfSession ==
    /\ ProxyrackInit
    /\ force_port = NoPort /\ _sticky_ports_index = 0
    /\ peer_option_str = DefaultOptionStr
    /\ NoProxyrack => (~use_sticky_ports /\ option_str = DefaultOptionStr)

Init == SessionInit /\ NordvpnInit /\ ProxyrackOfSession /\ CallersIdle

\* What the caller's predicate says of a send: a send that raises has no
\* response to accept.
Accepted(outcome) ==
    ~Raises(outcome) /\ IsSuccessful(is_successful_response, outcome.status)

\* One transport send, made through the proxy map as it is when the action
\* starts: the adapters after it, and the record of what it went through and
\* what came back.
Sent(outcome, provider) ==
    /\ sends' = sends + 1
    /\ adapters' = AdaptersAfter(outcome)
    /\ raised' = outcome.raises
    /\ log' = Append(log, [provider |-> provider, ok |-> Accepted(outcome)])
    /\ last_response' = SuperRequest(outcome, last_response)

\* Session.request, lines 187-216: the configuration check, the reset of the
\* attempt counter and the choice between sticky reuse and the search.
Request(proxies_arg) ==
    /\ pc \in {"idle", "returned", "raised"}
    /\ calls < MaxEarlierCalls + 1
    /\ sends' = 0 /\ acquisitions' = 0 /\ sleeps' = 0
    /\ raised' = "" /\ log' = <<>> /\ visited' = <<>>
    /\ last_response' = None /\ acquire_raised' = ""
    /\ sorted_providers' = <<>> /\ idx' = 0 /\ provider_retries' = 0
    /\ r' = None /\ result' = None
    /\ proxies_param' = proxies_arg
    /\ IF ConfigurationError(proxies_arg)
       THEN /\ pc' = "raised"
            /\ UNCHANGED _retries
       ELSE /\ _retries' = 0
            /\ pc' = IF StickyReuse THEN "sticky" ELSE "dispatch"
    /\ UNCHANGED <<callers, proxyrack, nordvpn, config, _last_successful_provider, proxies, success_proxy,
                   adapters>>

\* Session.request, lines 216-241: one send through the proxy map left by the
\* last successful provider.
StickyAttempt(outcome) ==
    /\ pc = "sticky"
    /\ LET resp == SuperRequest(outcome, r)
           ok == StickySuccess(resp)
       IN  /\ r' = resp
           /\ _retries' = _retries + 1
           /\ Sent(outcome, _last_successful_provider)
           /\ IF ok
              THEN /\ result' = resp
                   /\ pc' = "returned"
                   /\ UNCHANGED _last_successful_provider
              ELSE /\ _last_successful_provider' = NoProvider
                   /\ pc' = "dispatch"
                   /\ UNCHANGED result
    /\ UNCHANGED <<callers, proxyrack, nordvpn, config, proxies, proxies_param, sorted_providers, idx,
                   provider_retries, acquisitions, sleeps, visited,
                   success_proxy, acquire_raised>>

\* Session.request, lines 243-246, and request_with_providers, lines 54-61:
\* with providers, sort them and start the search; without, the plain loop.
Dispatch ==
    /\ pc = "dispatch"
    /\ IF proxy_providers # <<>>
       THEN /\ sorted_providers' = SortedProviders(proxy_providers)
            /\ idx' = 1
            /\ r' = None
            /\ pc' = "acquire"
       ELSE /\ pc' = "plain"
            /\ UNCHANGED <<sorted_providers, idx, r>>
    /\ UNCHANGED <<callers, proxyrack, nordvpn, config, session, proxies_param, provider_retries, result,
                   ghosts>>

\* request_with_providers, lines 62-70: the next provider of the for loop.
\* A class without max_retries makes line 65 raise AttributeError before
\* get_proxy is called.  What get_proxy raises at line 68 leaves
\* request_with_providers and request, the proxy map not updated.
EnterProvider ==
    /\ pc = "acquire"
    /\ idx <= Len(sorted_providers)
    /\ LET provider == sorted_providers[idx]
           got == GetProxy(provider)
       IN  /\ provider_retries' = 0
           /\ visited' = Append(visited, provider)
           /\ IF proxy_providers[provider].max_retries = NoMaxRetries
              THEN /\ acquire_raised' = "AttributeError"
                   /\ pc' = "raised"
                   /\ UNCHANGED <<proxies, acquisitions, proxyrack, nordvpn>>
              ELSE IF NeedsFetch(provider)
              THEN /\ FetchingProxy(provider)
                   /\ pc' = "fetch"
              ELSE /\ Acquired(provider, got)
                   /\ IF got.raises = ""
                      THEN proxies' = got.proxy /\ pc' = "attempt"
                      ELSE UNCHANGED proxies /\ pc' = "raised"
    /\ UNCHANGED <<callers, config, _retries, _last_successful_provider, proxies_param,
                   r, sorted_providers, idx, result, sends, sleeps, adapters,
                   raised, log, last_response, success_proxy>>

\* request_with_providers, lines 72-125: one pass of the while loop.
ProviderAttempt(outcome) ==
    /\ pc = "attempt"
    /\ LET provider == sorted_providers[idx]
           resp == SuperRequest(outcome, r)
           tries == provider_retries + 1
           n == _retries + 1
           success == Success(resp)
           got == GetProxy(provider)
       IN  /\ r' = resp
           /\ provider_retries' = tries
           /\ _retries' = n
           /\ Sent(outcome, provider)
           /\ _last_successful_provider' =
                  IF success THEN provider ELSE _last_successful_provider
           /\ success_proxy' = IF success THEN proxies ELSE success_proxy
           /\ IF ShouldReturn(n, success)
              THEN /\ result' = resp
                   /\ pc' = "returned"
                   /\ UNCHANGED <<proxies, idx, acquisitions, sleeps, acquire_raised,
                                  proxyrack, nordvpn>>
              ELSE IF ProviderExhausted(tries, provider)
              THEN /\ proxies' = NoProxy
                   /\ sleeps' = sleeps + 1
                   /\ idx' = idx + 1
                   /\ pc' = "acquire"
                   /\ UNCHANGED <<result, acquisitions, acquire_raised, proxyrack,
                                  nordvpn>>
              ELSE /\ IF ~ShouldGetNewProxy(provider)
                      THEN /\ sleeps' = sleeps + 1
                           /\ pc' = "attempt"
                           /\ UNCHANGED <<proxies, acquisitions, acquire_raised,
                                          proxyrack, nordvpn>>
                      ELSE IF NeedsFetch(provider)
                      THEN /\ FetchingProxy(provider)
                           /\ pc' = "refetch"
                           /\ UNCHANGED sleeps
                      ELSE /\ Acquired(provider, got)
                           /\ IF got.raises = ""
                              THEN /\ proxies' = got.proxy
                                   /\ sleeps' = sleeps + 1
                                   /\ pc' = "attempt"
                              ELSE /\ pc' = "raised"
                                   /\ UNCHANGED <<proxies, sleeps>>
                   /\ UNCHANGED <<result, idx>>
    /\ UNCHANGED <<callers, config, proxies_param, sorted_providers, visited>>

\* The call of get_proxy that waited for the remote list goes on from
\* nordvpn.py line 43 and the session from where it called: line 69 and the
\* first pass of the while loop, or lines 123-125 and the next pass.
ProxyFetched(order) ==
    /\ pc \in {"fetch", "refetch"}
    /\ order \in Shuffles(FetchedPool(nord_resp, proxy_domains))
    /\ LET got == NordvpnFetched(nord_resp, order)
       IN  /\ NordvpnCalled(got)
           /\ acquire_raised' = got.raises
           /\ IF got.raises = ""
              THEN /\ proxies' = got.proxy
                   /\ sleeps' = IF pc = "refetch" THEN sleeps + 1 ELSE sleeps
                   /\ pc' = "attempt"
              ELSE /\ pc' = "raised"
                   /\ UNCHANGED <<proxies, sleeps>>
    /\ UNCHANGED <<callers, config, proxyrack, _retries, _last_successful_provider,
                   proxies_param, r, sorted_providers, idx, provider_retries,
                   result, sends, acquisitions, adapters, raised, log, visited,
                   last_response, success_proxy>>

\* The for loop of request_with_providers runs out of providers; the value of
\* the call goes to r (line 244), the plain loop is skipped, line 263 returns.
ProvidersExhausted ==
    /\ pc = "acquire"
    /\ idx > Len(sorted_providers)
    /\ r' = ProvidersExhaustedValue(r)
    /\ result' = ProvidersExhaustedValue(r)
    /\ pc' = "returned"
    /\ UNCHANGED <<callers, proxyrack, nordvpn, config, session, proxies_param, sorted_providers, idx,
                   provider_retries, ghosts>>

\* Session.request, lines 246-261: one pass of the loop without providers.
NoProviderAttempt(outcome) ==
    /\ pc = "plain"
    /\ NoProviderLoop(_retries)
    /\ LET resp == SuperRequest(outcome, r)
       IN  /\ r' = resp
           /\ _retries' = _retries + 1
           /\ Sent(outcome, NoProvider)
           /\ IF NoProviderReturn(resp)
              THEN /\ result' = resp
                   /\ pc' = "returned"
                   /\ UNCHANGED sleeps
              ELSE /\ sleeps' = sleeps + 1
                   /\ pc' = "plain"
                   /\ UNCHANGED result
    /\ UNCHANGED <<callers, proxyrack, nordvpn, config, _last_successful_provider, proxies, proxies_param,
                   sorted_providers, idx, provider_retries, acquisitions,
                   visited, success_proxy, acquire_raised>>

\* Session.request, lines 246 and 263: the loop condition fails, return r.
NoProviderExit ==
    /\ pc = "plain"
    /\ ~NoProviderLoop(_retries)
    /\ result' = r
    /\ pc' = "returned"
    /\ UNCHANGED <<callers, proxyrack, nordvpn, config, session, proxies_param, r, sorted_providers, idx,
                   provider_retries, ghosts>>

\* Session.reset_adapters, lines 45-48, called by the owner of the session
\* between two requests: new adapters are mounted.
ResetAdapters ==
    /\ pc \in {"idle", "returned", "raised"}
    /\ adapters' = "fresh"
    /\ UNCHANGED <<sends, acquisitions, sleeps, raised, log, visited,
                   last_response, success_proxy, acquire_raised>>
    /\ UNCHANGED <<config, session, locals, nordvpn, proxyrack, callers>>

Next ==
    \/ \E proxies_arg \in BOOLEAN : Request(proxies_arg)
    \/ ResetAdapters
    \/ \E outcome \in Outcomes : StickyAttempt(outcome)
    \/ Dispatch
    \/ EnterProvider
    \/ \E outcome \in Outcomes : ProviderAttempt(outcome)
    \/ \E order \in Shuffles(FetchedPool(nord_resp, proxy_domains)) : ProxyFetched(order)
    \/ ProvidersExhausted
    \/ \E outcome \in Outcomes : NoProviderAttempt(outcome)
    \/ NoProviderExit

Spec == Init /\ [][Next]_vars

-----------------------------------------------------------------------------
\* Nordvpn.get_new_proxy, lines 61-70, with the call of
\* get_best_server_domains, lines 35-59, it starts with.

\* lines 37-40 answer no: the pool is kept and the endpoint is not contacted.
PoolFresh ==
    /\ nord_pc = "idle"
    /\ ~NeedsRefresh(proxy_domains, now, updated_at)
    /\ nord_pc' = "select"
    /\ contacted' = FALSE
    /\ nord_raised' = ""
    /\ nord_resp' = NoAnswer
    /\ UNCHANGED <<proxy_domains, _index, updated_at, now, ticks, issued>>
    /\ UNCHANGED <<config, session, locals, ghosts, proxyrack, callers>>

\* lines 37-42: the pool is empty or old, the endpoint is asked.
Fetch(answer) ==
    /\ nord_pc = "idle"
    /\ NeedsRefresh(proxy_domains, now, updated_at)
    /\ FetchStarted(answer)
    /\ UNCHANGED <<config, session, locals, ghosts, proxyrack, callers>>

\* lines 43-59: filter or fall back, then the finally clause shuffles, stamps
\* and rewinds, whether or not an exception is on its way out.
Install(order) ==
    /\ nord_pc = "fetched"
    /\ order \in Shuffles(FetchedPool(nord_resp, proxy_domains))
    /\ proxy_domains' = order
    /\ updated_at' = now
    /\ _index' = 0
    /\ nord_raised' = FetchRaises(nord_resp)
    /\ nord_pc' = IF FetchRaises(nord_resp) = "" THEN "select" ELSE "idle"
    /\ issued' = << >>
    /\ UNCHANGED <<now, ticks, nord_resp, contacted>>
    /\ UNCHANGED <<config, session, locals, ghosts, proxyrack, callers>>

\* lines 64-70: index the pool, advance the cursor.
Select ==
    /\ nord_pc = "select"
    /\ nord_pc' = "idle"
    /\ IF proxy_domains = << >>
       THEN /\ nord_raised' = "IndexError"
            /\ UNCHANGED <<_index, issued>>
       ELSE /\ _index' = NextIndex(_index, Len(proxy_domains))
            /\ issued' = IF Len(issued) <= Len(proxy_domains)
                         THEN Append(issued, proxy_domains[_index + 1])
                         ELSE issued
            /\ UNCHANGED nord_raised
    /\ nord_resp' = NoAnswer
    /\ UNCHANGED <<proxy_domains, updated_at, now, ticks, contacted>>
    /\ UNCHANGED <<config, session, locals, ghosts, proxyrack, callers>>

\* time.time() moves on between two calls.
Tick(d) ==
    /\ nord_pc = "idle"
    /\ ticks < MaxTicks
    /\ ticks' = ticks + 1
    /\ now' = now + d
    /\ UNCHANGED <<proxy_domains, _index, updated_at, nord_pc, nord_resp, contacted,
                   nord_raised, issued>>
    /\ UNCHANGED <<config, session, locals, ghosts, proxyrack, callers>>

NordvpnNext ==
    \/ PoolFresh
    \/ \E answer \in Answers : Fetch(answer)
    \/ \E order \in Shuffles(FetchedPool(nord_resp, proxy_domains)) : Install(order)
    \/ Select
    \/ \E d \in {1, TTL} : Tick(d)

\* Session(), lines 20-30: the defaults of the constructor, the session never
\* used.  The default list holds the two provider classes, which define no
\* max_retries.
SessionUnused ==
    /\ SessionInit
    /\ ~sticky_proxies /\ retry_on_failure /\ max_retries = 3
    /\ proxy_providers = << [class |-> "Proxyrack", max_retries |-> NoMaxRetries],
                            [class |-> "Nordvpn", max_retries |-> NoMaxRetries] >>
    /\ is_successful_response = "default"

NordvpnSpecInit == SessionUnused /\ NordvpnInit /\ ProxyrackUnused /\ CallersIdle

NordvpnSpec == NordvpnSpecInit /\ [][NordvpnNext]_vars

-----------------------------------------------------------------------------
\* ProxyrackProvider.get_new_proxy, lines 43-65, and close, lines 67-73.

\* lines 43-65: pick the port, move the cursor, build the endpoint, record
\* and return it.
GetNewProxy ==
    /\ rack_pc # "closing"
    /\ calls < MaxCalls
    /\ GetNewProxyCalled
    /\ UNCHANGED <<config, session, locals, ghosts, nordvpn, callers>>

\* lines 43-65, on a second provider of the process, made with sticky ports
\* and no forced port: the class cursor of line 27 is the one cursor of both
\* providers, the list of endpoints is the provider's own.
PeerGetNewProxy ==
    /\ rack_pc # "closing"
    /\ peer_calls < MaxPeerCalls
    /\ peer_calls' = peer_calls + 1
    /\ _sticky_ports_index' = (_sticky_ports_index + 1) % Len(sticky_ports)
    /\ IF peer_option_str # ""
       THEN /\ peer_proxies' = Append(peer_proxies, sticky_ports[_sticky_ports_index + 1])
            /\ sticky_issued' = Append(sticky_issued, sticky_ports[_sticky_ports_index + 1])
       ELSE UNCHANGED <<peer_proxies, sticky_issued>>
    /\ UNCHANGED <<use_sticky_ports, force_port, option_str, _proxies, proxy_raised,
                   rack_pc, close_pos, release_calls, rack_raised, calls,
                   peer_option_str>>
    /\ UNCHANGED <<config, session, locals, ghosts, nordvpn, callers>>

\* lines 67-69: close is called; without sticky ports or endpoints it returns.
Close ==
    /\ rack_pc # "closing"
    /\ release_calls' = << >>
    /\ rack_raised' = ""
    /\ IF use_sticky_ports /\ _proxies # << >>
       THEN rack_pc' = "closing" /\ close_pos' = 1
       ELSE rack_pc' = "closed" /\ close_pos' = 0
    /\ UNCHANGED <<use_sticky_ports, force_port, option_str, _sticky_ports_index,
                   _proxies, proxy_raised, calls, peer_option_str, peer_proxies,
                   peer_calls, sticky_issued>>
    /\ UNCHANGED <<config, session, locals, ghosts, nordvpn, callers>>

\* lines 69-73: one pass of the loop, the release call for one endpoint.
Release(outcome) ==
    /\ rack_pc = "closing"
    /\ release_calls' = Append(release_calls, _proxies[close_pos])
    /\ rack_raised' = CloseRaises(outcome)
    /\ IF CloseRaises(outcome) # "" \/ close_pos = Len(_proxies)
       THEN rack_pc' = "closed" /\ UNCHANGED close_pos
       ELSE rack_pc' = "closing" /\ close_pos' = close_pos + 1
    /\ UNCHANGED <<use_sticky_ports, force_port, option_str, _sticky_ports_index,
                   _proxies, proxy_raised, calls, peer_option_str, peer_proxies,
                   peer_calls, sticky_issued>>
    /\ UNCHANGED <<config, session, locals, ghosts, nordvpn, callers>>

ProxyrackNext ==
    \/ GetNewProxy
    \/ PeerGetNewProxy
    \/ Close
    \/ \E outcome \in ReleaseOutcomes : Release(outcome)

ProxyrackSpecInit == SessionUnused /\ NordvpnInit /\ ProxyrackInit /\ CallersIdle

ProxyrackSpec == ProxyrackSpecInit /\ [][ProxyrackNext]_vars

-----------------------------------------------------------------------------
\* Threads inside Nordvpn.get_new_proxy, lines 61-70, and inside
\* ProxyrackProvider.get_new_proxy, lines 51-65, one statement at a time.  No
\* lock guards either cursor.

\* nordvpn.py lines 63-64: the pool is fresh, the host at the cursor is read.
NordvpnPick(t) ==
    /\ nord_call[t].pc = "idle"
    /\ ~NeedsRefresh(proxy_domains, now, updated_at)
    /\ nord_call' = [nord_call EXCEPT ![t].pc = "picked",
                                      ![t].host = proxy_domains[_index + 1]]
    /\ UNCHANGED <<rack_call, nordvpn>>
    /\ UNCHANGED <<config, session, locals, ghosts, proxyrack>>

\* nordvpn.py line 66, right-hand side: the cursor is read.
NordvpnLoad(t) ==
    /\ nord_call[t].pc = "picked"
    /\ nord_call' = [nord_call EXCEPT ![t].pc = "loaded", ![t].loaded = _index]
    /\ UNCHANGED <<rack_call, nordvpn>>
    /\ UNCHANGED <<config, session, locals, ghosts, proxyrack>>

\* nordvpn.py lines 66-70: the cursor is written, the host returned.
NordvpnStore(t) ==
    /\ nord_call[t].pc = "loaded"
    /\ _index' = StoredIndex(nord_call[t].loaded, _index, Len(proxy_domains))
    /\ nord_call' = [nord_call EXCEPT ![t].pc = "done"]
    /\ UNCHANGED <<rack_call, proxy_domains, updated_at, now, ticks, nord_pc,
                   nord_resp, contacted, nord_raised, issued>>
    /\ UNCHANGED <<config, session, locals, ghosts, proxyrack>>

\* proxyrack.py lines 51-55: the port at the cursor is read.
ProxyrackPick(t) ==
    /\ rack_call[t].pc = "idle"
    /\ rack_call' = [rack_call EXCEPT ![t].pc = "picked", ![t].port = NextPort]
    /\ UNCHANGED <<nord_call, proxyrack>>
    /\ UNCHANGED <<config, session, locals, ghosts, nordvpn>>

\* proxyrack.py line 57: the cursor is read.
ProxyrackLoad(t) ==
    /\ rack_call[t].pc = "picked"
    /\ rack_call' = [rack_call EXCEPT ![t].pc = "loaded",
                                      ![t].loaded = _sticky_ports_index]
    /\ UNCHANGED <<nord_call, proxyrack>>
    /\ UNCHANGED <<config, session, locals, ghosts, nordvpn>>

\* proxyrack.py lines 56-58: the cursor is written.
ProxyrackStore(t) ==
    /\ rack_call[t].pc = "loaded"
    /\ _sticky_ports_index' =
           StoredIndex(rack_call[t].loaded, _sticky_ports_index, Len(sticky_ports))
    /\ rack_call' = [rack_call EXCEPT ![t].pc = "stored"]
    /\ UNCHANGED <<nord_call, use_sticky_ports, force_port, option_str, _proxies,
                   proxy_raised, rack_pc, close_pos, release_calls, rack_raised,
                   calls, peer_option_str, peer_proxies, peer_calls, sticky_issued>>
    /\ UNCHANGED <<config, session, locals, ghosts, nordvpn>>

\* proxyrack.py lines 62-65: the endpoint is built, recorded and returned,
\* unless line 62 raises.
ProxyrackRecord(t) ==
    /\ rack_call[t].pc = "stored"
    /\ proxy_raised' = BuildRaises
    /\ IF BuildRaises = ""
       THEN /\ _proxies' = Append(_proxies, rack_call[t].port)
            /\ sticky_issued' = Append(sticky_issued, rack_call[t].port)
            /\ rack_call' = [rack_call EXCEPT ![t].pc = "done"]
       ELSE /\ rack_call' = [rack_call EXCEPT ![t].pc = "raised"]
            /\ UNCHANGED <<_proxies, sticky_issued>>
    /\ UNCHANGED <<nord_call, use_sticky_ports, force_port, option_str,
                   _sticky_ports_index, rack_pc, close_pos, release_calls,
                   rack_raised, calls, peer_option_str, peer_proxies, peer_calls>>
    /\ UNCHANGED <<config, session, locals, ghosts, nordvpn>>

ConcurrentNext ==
    \/ \E t \in Callers : NordvpnPick(t)
    \/ \E t \in Callers : NordvpnLoad(t)
    \/ \E t \in Callers : NordvpnStore(t)
    \/ \E t \in Callers : ProxyrackPick(t)
    \/ \E t \in Callers : ProxyrackLoad(t)
    \/ \E t \in Callers : ProxyrackStore(t)
    \/ \E t \in Callers : ProxyrackRecord(t)

\* Nordvpn after one call of get_new_proxy whose fetch fell back to the
\* hardcoded list: the pool installed and fresh, the cursor after the first host.
NordvpnPooled ==
    /\ proxy_domains = ExampleProxyUrls
    /\ _index = 1
    /\ updated_at = TTL + 1
    /\ now = TTL + 1
    /\ ticks = 0
    /\ nord_pc = "idle"
    /\ nord_resp = NoAnswer
    /\ contacted = TRUE
    /\ nord_raised = ""
    /\ issued = << ExampleProxyUrls[1] >>

\* One provider with sticky ports and no forced port, the class cursor where
\* earlier providers left it.
ProxyrackSticky ==
    /\ ProxyrackInit
    /\ use_sticky_ports /\ force_port = NoPort
    /\ peer_option_str = DefaultOptionStr

ConcurrentSpecInit ==
    SessionUnused /\ NordvpnPooled /\ ProxyrackSticky /\ CallersIdle

ConcurrentSpec == ConcurrentSpecInit /\ [][ConcurrentNext]_vars

(***************************************************************************)
(* Properties.                                                             *)
(***************************************************************************)
Returned == pc = "returned"

Last(seq) == seq[Len(seq)]

\* The providers of proxy_providers by position.
StrengthOf(provider) == strength(proxy_providers[provider].class)
BudgetOf(provider) == proxy_providers[provider].max_retries

\* Number of entries at the end of the log that went through one provider.
RECURSIVE TrailingRun(_, _)
TrailingRun(entries, provider) ==
    IF entries = <<>> \/ Last(entries).provider # provider THEN 0
    ELSE 1 + TrailingRun(SubSeq(entries, 1, Len(entries) - 1), provider)

\* C1: with max_retries >= 1 the attempt counter _retries never exceeds
\* max_retries, during or after a logical request, sticky reuse included.
C1_RetriesWithinBudget ==
    max_retries >= 1 => _retries <= max_retries

\* C2: with retry_on_failure false a logical request that has returned made
\* exactly one transport send.
C2_OneSendWithoutRetry ==
    (~retry_on_failure /\ Returned) => sends = 1

\* C3: when the request returns because the provider list ran out before the
\* session budget, the value returned is the last response obtained (None
\* only if every send raised).
C3_ExhaustionReturnsLastResponse ==
    (Returned /\ proxy_providers # <<>> /\ idx > Len(sorted_providers)
        /\ _retries < max_retries)
    => result = last_response

\* C4: within one logical request the providers are visited in non-increasing
\* strength, equal strengths in their order in proxy_providers, and none twice.
C4_VisitOrder ==
    \A i, j \in DOMAIN visited :
        i < j =>
            /\ StrengthOf(visited[i]) >= StrengthOf(visited[j])
            /\ StrengthOf(visited[i]) = StrengthOf(visited[j])
                   => visited[i] < visited[j]
            /\ visited[i] # visited[j]

\* C4 witness: both providers of a list that names the weaker one first have
\* been visited, the stronger one first.
C4_Witness ==
    /\ Len(proxy_providers) = 2
    /\ StrengthOf(1) < StrengthOf(2)
    /\ visited = <<2, 1>>

\* C5: no provider gets more than its max_retries consecutive sends within
\* one logical request, the sticky-reuse send counted for the provider reused.
C5_ConsecutiveAttemptsWithinBudget ==
    \A provider \in DOMAIN proxy_providers :
        TrailingRun(log, provider) <= BudgetOf(provider)

\* C6: the sticky-reuse step sends through the endpoint of the last successful
\* attempt without any acquisition; a response the success predicate accepts
\* is returned and the last successful provider kept; only otherwise is the
\* last successful provider cleared and the provider search started.
C6_StickyReuse ==
    [][pc = "sticky" =>
          /\ proxies = success_proxy
          /\ proxies' = proxies
          /\ acquisitions' = 0
          /\ IF Last(log').ok
             THEN /\ pc' = "returned"
                  /\ result' = last_response'
                  /\ _last_successful_provider' = _last_successful_provider
             ELSE /\ pc' = "dispatch"
                  /\ _last_successful_provider' = NoProvider]_vars

\* C7: a send that raises a transport error is absorbed by its attempt, in
\* the sticky-reuse step, the provider loop and the loop without providers
\* alike: the adapters are reset, _retries and the provider's counter grow by
\* one, and the attempt is treated as unsuccessful, so the request goes on
\* unless retrying is off or the session budget is used up; the transport
\* error itself never leaves the request.
C7_TransportErrorCounted ==
    [][(sends' = sends + 1 /\ raised' # "") =>
          /\ adapters' = "fresh"
          /\ _retries' = _retries + 1
          /\ provider_retries' = provider_retries + 1
          /\ _last_successful_provider' \in {_last_successful_provider, NoProvider}
          /\ pc' \in {"returned", "dispatch", "acquire", "attempt", "refetch", "plain",
                     "raised"}
          /\ pc' = "raised" => acquire_raised' # ""
          /\ pc' = "returned" =>
                 /\ ~retry_on_failure \/ _retries' >= max_retries
                 /\ result' = r]_vars

\* C8: a call with a non-empty proxies argument on a session with providers
\* raises before any send or acquisition and leaves _retries, the last
\* successful provider and the proxy map as they were.
C8_ConfigurationErrorFirst ==
    [][(pc \in {"idle", "returned", "raised"} /\ proxies_param'
            /\ proxy_providers # <<>>) =>
          /\ pc' = "raised"
          /\ sends' = 0
          /\ acquisitions' = 0
          /\ UNCHANGED <<_retries, _last_successful_provider, proxies>>]_vars

\* C8 witness: the error was raised on a session that had already completed a
\* successful request.
C8_Witness ==
    /\ pc = "raised"
    /\ proxies_param
    /\ _retries > 0
    /\ _last_successful_provider # NoProvider
    /\ proxies # NoProxy

\* The log of a request in which the first provider failed each of its
\* `budget` attempts and the second one then succeeded at once.
FellThrough(first, second, budget) ==
    /\ Len(log) = budget + 1
    /\ \A i \in 1..budget : log[i] = [provider |-> first, ok |-> FALSE]
    /\ log[budget + 1] = [provider |-> second, ok |-> TRUE]

\* C9: with retrying on, providers P1 > P2 by strength and P1.max_retries
\* below the session budget, when P1 fails all its attempts and P2 succeeds
\* at once, the request returns P2's response with _retries = P1.max_retries
\* + 1 and P2 as last successful provider.
C9_FallThrough ==
    \A first, second \in DOMAIN proxy_providers :
        (/\ retry_on_failure
         /\ StrengthOf(first) > StrengthOf(second)
         /\ BudgetOf(first) < max_retries
         /\ FellThrough(first, second, BudgetOf(first)))
        =>
        /\ pc = "returned"
        /\ result = last_response
        /\ IsSuccessful(is_successful_response, result)
        /\ _retries = BudgetOf(first) + 1
        /\ _last_successful_provider = second

\* C9 witness: the instance with budgets 2 and 3, three sends in all.
C9_Witness ==
    /\ retry_on_failure
    /\ max_retries = 3
    /\ Len(proxy_providers) = 2
    /\ \E first, second \in DOMAIN proxy_providers :
           /\ StrengthOf(first) > StrengthOf(second)
           /\ BudgetOf(first) = 2
           /\ FellThrough(first, second, 2)
    /\ _retries = 3
    /\ pc = "returned"

\* C10: without providers the request makes no acquisition, sends until the
\* first response the success predicate accepts and returns it, makes at
\* most max_retries sends (one when retrying is off), and otherwise returns
\* the last response obtained.
C10_NoProviderRetry ==
    proxy_providers = <<>> =>
        /\ acquisitions = 0
        /\ sends <= max_retries
        /\ \A i \in DOMAIN log :
               log[i].ok => i = Len(log) /\ Returned /\ result = last_response
        /\ Returned =>
               /\ result = last_response
               /\ ~retry_on_failure => sends = 1
               /\ (retry_on_failure /\ \A i \in DOMAIN log : ~log[i].ok)
                      => sends = max_retries

-----------------------------------------------------------------------------
\* Nordvpn: properties of the pool.

FetchFailures == {"not_json", "unreachable", "missing_field"}

\* C11: once get_best_server_domains has returned normally the pool holds at
\* least one host, whatever the remote endpoint answered, so get_new_proxy
\* never indexes an empty pool.
C11_PoolNeverEmpty ==
    /\ nord_pc = "select" => proxy_domains # << >>
    /\ nord_raised # "IndexError"

\* C12: a failed fetch of any kind (no answer, a body that is not JSON, an
\* entry without a field) raises nothing to the caller and leaves the pool
\* holding the hardcoded hostnames.
C12_FetchFailureRecovered ==
    (nord_pc # "fetched" /\ nord_resp.kind \in FetchFailures) =>
        /\ nord_raised = ""
        /\ Range(proxy_domains) = Range(ExampleProxyUrls)

\* C13: when the remote body is not JSON, get_best_server_domains returns
\* normally and the pool holds exactly the hardcoded hostnames, in some
\* order, and is not empty.
C13_NotJsonFallsBack ==
    (nord_pc # "fetched" /\ nord_resp.kind = "not_json") =>
        /\ nord_pc = "select"
        /\ nord_raised = ""
        /\ proxy_domains # << >>
        /\ Len(proxy_domains) = Len(ExampleProxyUrls)
        /\ Range(proxy_domains) = Range(ExampleProxyUrls)

\* C13 witness: the fallback installed in another order than the hardcoded one.
C13_Witness ==
    /\ nord_pc = "select"
    /\ nord_resp.kind = "not_json"
    /\ Range(proxy_domains) = Range(ExampleProxyUrls)
    /\ proxy_domains # ExampleProxyUrls

\* C14: after a refresh that fetched a list, the pool holds exactly the
\* hostnames of the entries that are online with a load in the closed
\* interval [min_load, max_load], each once.
C14_PoolIsFilteredList ==
    (nord_pc = "select" /\ contacted /\ nord_resp.kind = "list") =>
        LET qualifying ==
                {h \in DOMAIN nord_resp.servers :
                    /\ nord_resp.servers[h].status = "online"
                    /\ nord_resp.servers[h].load \in MinLoad..MaxLoad}
        IN /\ Range(proxy_domains) = qualifying
           /\ Len(proxy_domains) = Cardinality(qualifying)

\* C14 witness: a online at 10, b offline at 5, c online at 80 give the pool a.
C14_Witness ==
    /\ nord_pc = "select"
    /\ contacted
    /\ nord_resp.kind = "list"
    /\ DOMAIN nord_resp.servers = {"a", "b", "c"}
    /\ nord_resp.servers["a"] = [status |-> "online", load |-> 10]
    /\ nord_resp.servers["b"] = [status |-> "offline", load |-> 5]
    /\ nord_resp.servers["c"] = [status |-> "online", load |-> 80]
    /\ proxy_domains = << "a" >>

\* C15: between two refreshes the calls of get_new_proxy return the hosts of
\* the pool in order from its first one and start again at the first after
\* the last; the cursor is the number of calls modulo the size of the pool.
C15_RoundRobin ==
    proxy_domains # << >> =>
        /\ \A i \in DOMAIN issued :
              issued[i] = proxy_domains[((i - 1) % Len(proxy_domains)) + 1]
        /\ Len(issued) <= Len(proxy_domains) =>
              _index = Len(issued) % Len(proxy_domains)

\* C15 witness: a pool of three hosts, four calls without a refresh.
C15_Witness ==
    /\ Len(proxy_domains) = 3
    /\ Len(issued) = 4
    /\ issued[4] = proxy_domains[1]
    /\ _index = 1

\* C16: get_best_server_domains contacts the remote endpoint exactly when the
\* pool is empty or older than TTL; otherwise pool, cursor and updated_at stay
\* as they are; a refresh that returns normally leaves the cursor at 0 and
\* updated_at at the time of the refresh.
C16_RefreshOnlyWhenStale ==
    [][/\ (nord_pc = "idle" /\ nord_pc' # "idle") =>
            /\ contacted' <=> (proxy_domains = << >> \/ now - updated_at > TTL)
            /\ ~contacted' => UNCHANGED <<proxy_domains, _index, updated_at>>
       /\ (nord_pc = "fetched" /\ nord_pc' = "select") =>
            /\ _index' = 0
            /\ updated_at' = now]_vars

\* C16 witness: a call made exactly TTL after the last refresh kept the pool.
C16_Witness ==
    /\ nord_pc = "select"
    /\ ~contacted
    /\ proxy_domains # << >>
    /\ now - updated_at = TTL


-----------------------------------------------------------------------------
\* Session: the provider loop and termination.

\* C17: when one attempt of the provider loop takes _retries to max_retries
\* and provider_retries to the provider's max_retries together, the request
\* returns the result of that attempt at once: the proxy map is not cleared,
\* no backoff sleep is taken and the loop does not move to the next provider.
C17_SessionCeilingWins ==
    [][(/\ pc = "attempt"
        /\ _retries' = _retries + 1
        /\ _retries' >= max_retries
        /\ provider_retries' >= BudgetOf(sorted_providers[idx])) =>
            /\ pc' = "returned"
            /\ result' = r'
            /\ proxies' = proxies
            /\ proxies' # NoProxy
            /\ sleeps' = sleeps
            /\ idx' = idx]_vars

\* C17 witness: a failed attempt hit both budgets while a weaker provider was
\* still waiting, and the request returned.
C17_Witness ==
    /\ pc = "returned"
    /\ retry_on_failure
    /\ visited # << >>
    /\ ~Success(r)
    /\ _retries = max_retries
    /\ provider_retries = BudgetOf(sorted_providers[idx])
    /\ idx < Len(sorted_providers)
    /\ proxies # NoProxy
    /\ sleeps < sends

\* The endpoint a provider's class handed out last, read from the state the
\* call left: the host before the Nordvpn cursor, the last endpoint the
\* Proxyrack provider recorded.
HandedOut(provider) ==
    IF proxy_providers[provider].class = "Nordvpn"
    THEN <<proxy_domains[IF _index = 0 THEN Len(proxy_domains) ELSE _index],
           DEFAULT_PORT>>
    ELSE <<DNS, Last(_proxies)>>

\* C18: after an attempt that ends neither the request nor the provider's
\* turn, get_proxy is called on the same provider exactly when
\* sticky_proxies is set or the provider is DIRECT, and the endpoint it
\* returns becomes the proxy map (what it raises leaves the request, the
\* proxy map as it was); otherwise the endpoint acquired on entering the turn
\* is kept, so a DNS provider without sticky sessions is asked once per visit.
\* Entering a provider calls get_proxy once, unless the class has no
\* max_retries and line 65 raises first.
C18_AcquireInsideTurn ==
    [][/\ (pc = "attempt" /\ pc' \in {"attempt", "refetch", "raised"}) =>
            IF sticky_proxies
               \/ paradigm(proxy_providers[sorted_providers[idx]].class) = "DIRECT"
            THEN /\ acquisitions' = acquisitions + 1
                 /\ pc' = "attempt" =>
                        /\ proxies' = HandedOut(sorted_providers[idx])'
                        /\ acquire_raised' = ""
                 /\ pc' = "refetch" => proxies' = proxies
                 /\ pc' = "raised" => (acquire_raised' # "" /\ proxies' = proxies)
            ELSE /\ acquisitions' = acquisitions
                 /\ proxies' = proxies
                 /\ pc' = "attempt"
       /\ (pc = "acquire" /\ pc' \in {"attempt", "fetch", "raised"}) =>
            IF BudgetOf(sorted_providers[idx]) = NoMaxRetries
            THEN /\ acquisitions' = acquisitions
                 /\ pc' = "raised" /\ acquire_raised' = "AttributeError"
            ELSE /\ acquisitions' = acquisitions + 1
                 /\ pc' = "attempt" => proxies' = HandedOut(sorted_providers[idx])'
       /\ (pc \in {"fetch", "refetch"}) =>
            /\ acquisitions' = acquisitions
            /\ pc' = "attempt" => proxies' = HandedOut(sorted_providers[idx])'
            /\ pc' = "raised" => (acquire_raised' # "" /\ proxies' = proxies)
       /\ (pc = "attempt" /\ pc' \notin {"attempt", "refetch", "raised"}) =>
            acquisitions' = acquisitions]_vars

\* C18 witness: a DNS provider without sticky sessions was sent to twice in
\* its one visit and asked for an endpoint once.
C18_Witness ==
    /\ pc = "returned"
    /\ ~sticky_proxies
    /\ Len(visited) = 1
    /\ paradigm(proxy_providers[visited[1]].class) = "DNS"
    /\ provider_retries = 2
    /\ sends = 2
    /\ sleeps = 1
    /\ acquisitions = 1

RECURSIVE RemainingBudget(_)
\* Turns that can still be sent in from the provider at position i on, each
\* provider counted with the step that enters its turn.
RemainingBudget(i) ==
    IF i > Len(sorted_providers) THEN 0
    ELSE 2 * BudgetOf(sorted_providers[i]) + 2 + RemainingBudget(i + 1)

RECURSIVE ListBudget(_)
ListBudget(i) ==
    IF i > Len(proxy_providers) THEN 0
    ELSE 2 * BudgetOf(i) + 2 + ListBudget(i + 1)

InRequest ==
    pc \in {"sticky", "dispatch", "acquire", "fetch", "attempt", "refetch", "plain"}

\* Steps a request can still take before it returns, at most.
Rank ==
    CASE pc = "attempt" ->
            2 * (BudgetOf(sorted_providers[idx]) - provider_retries)
                + RemainingBudget(idx + 1) + 1
      [] pc \in {"fetch", "refetch"} ->
            2 * (BudgetOf(sorted_providers[idx]) - provider_retries)
                + RemainingBudget(idx + 1) + 2
      [] pc = "acquire" -> RemainingBudget(idx) + 1
      [] pc = "plain" ->
            (IF _retries < max_retries THEN max_retries - _retries ELSE 0) + 1
      [] pc = "dispatch" -> ListBudget(1) + max_retries + 2
      [] pc = "sticky" -> ListBudget(1) + max_retries + 3
      [] OTHER -> 0

\* C19: every request terminates, whatever the sends give: while a request
\* runs it can always take a step, and every step takes it closer to its
\* return by a measure that the budgets bound; the sends and the sleeps it
\* makes are no more than that measure allows.
C19_RequestTerminates ==
    /\ [](InRequest => (Rank \in Nat /\ Rank > 0 /\ ENABLED Next))
    /\ [][InRequest => Rank' < Rank]_vars

\* C19 witness: a request over two providers that used every turn of both
\* and returned with nothing left to try.
C19_Witness ==
    /\ pc = "returned"
    /\ Len(visited) = 2
    /\ idx > Len(sorted_providers)
    /\ sends = BudgetOf(1) + BudgetOf(2)
    /\ sleeps = sends


-----------------------------------------------------------------------------
\* ProxyrackProvider: close.

\* C20: close is best effort: a release call that fails raises nothing out of
\* close, and the release call is still issued for every endpoint recorded.
C20_CloseBestEffort ==
    /\ rack_raised = ""
    /\ (rack_pc = "closed" /\ use_sticky_ports) => release_calls = _proxies


\* C21: the sticky ports issued, over every provider of the process, lie in
\* [10000, 14000) and are consecutive ports of that range in the order of
\* the calls, 10000 following 13999, and the cursor stays in [0, 4000).
C21_StickyPortsRotate ==
    /\ _sticky_ports_index \in 0..3999
    /\ \A i \in 1..Len(sticky_issued) : sticky_issued[i] \in 10000..13999
    /\ \A i \in 1..(Len(sticky_issued) - 1) :
          sticky_issued[i + 1] =
              IF sticky_issued[i] = 13999 THEN 10000 ELSE sticky_issued[i] + 1

\* C22: with a forced port every acquisition uses that port, with or without
\* sticky ports, and the endpoint is appended to the provider's list; no
\* call, whether it returns an endpoint or raises, moves the shared cursor.
C22_ForcedPortOverrides ==
    [][force_port # NoPort =>
            /\ calls' # calls => _sticky_ports_index' = _sticky_ports_index
            /\ (calls' # calls /\ proxy_raised' = "") =>
                  _proxies' = Append(_proxies, force_port)
            /\ _proxies' # _proxies => _proxies' = Append(_proxies, force_port)]_vars

\* C22 witness: two acquisitions of a provider with sticky ports and a forced
\* port, the cursor still at the end of the range.
C22_Witness ==
    /\ use_sticky_ports
    /\ force_port = 8080
    /\ calls = 2
    /\ _proxies = << 8080, 8080 >>
    /\ _sticky_ports_index = 3999


-----------------------------------------------------------------------------
\* Concurrent callers: the shared cursors.

\* C23: the cursor update is a read followed by a write with nothing to hold
\* other callers off in between: a caller returns the endpoint that stood at
\* the cursor when it picked, and writes the successor of the cursor value it
\* read, whatever other callers wrote since.  Two callers that read the same
\* value get the same endpoint and move the cursor by one.
C23_CursorReadThenWrite ==
    [][\A t \in Callers :
        /\ (nord_call[t].pc = "idle" /\ nord_call'[t].pc = "picked") =>
              nord_call'[t].host = proxy_domains[_index + 1]
        /\ (nord_call[t].pc = "loaded" /\ nord_call'[t].pc = "done") =>
              _index' = (nord_call[t].loaded + 1) % Len(proxy_domains)
        /\ (rack_call[t].pc = "idle" /\ rack_call'[t].pc = "picked") =>
              rack_call'[t].port = 10000 + _sticky_ports_index
        /\ (rack_call[t].pc = "loaded" /\ rack_call'[t].pc = "stored") =>
              _sticky_ports_index' = (rack_call[t].loaded + 1) % 4000
        /\ (rack_call[t].pc = "stored" /\ rack_call'[t].pc = "done") =>
              _proxies' = Append(_proxies, rack_call[t].port)]_vars

\* C23 witness: two callers of each method have returned; both Nordvpn
\* callers got the same host and both Proxyrack callers the same sticky port,
\* and each cursor stands one past where it stood before the calls.
C23_Witness ==
    /\ nord_call[1].pc = "done" /\ nord_call[2].pc = "done"
    /\ nord_call[1].host = nord_call[2].host
    /\ nord_call[1].host = proxy_domains[2]
    /\ _index = 2
    /\ rack_call[1].pc = "done" /\ rack_call[2].pc = "done"
    /\ rack_call[1].port = rack_call[2].port
    /\ _proxies = << 13999, 13999 >>
    /\ _sticky_ports_index = 0


-----------------------------------------------------------------------------
\* Session: the last successful provider, and the backoff sleeps.

\* C24: with sticky_proxies and providers, whenever a request has returned,
\* _last_successful_provider is set exactly if the value returned is a
\* response the success predicate accepts (so it is None after an
\* unsuccessful response and after None), and when it is set the proxy map
\* holds the endpoint the most recent successful attempt went through.
C24_LastSuccessfulProvider ==
    (Returned /\ sticky_proxies /\ proxy_providers # << >>) =>
        /\ _last_successful_provider # NoProvider
              <=> (result # None /\ IsSuccessful(is_successful_response, result))
        /\ _last_successful_provider # NoProvider =>
              /\ proxies = success_proxy
              /\ proxies # NoProxy
              /\ Last(log).ok
              /\ Last(log).provider = _last_successful_provider

\* C24 witness: a request whose sticky-reuse send failed and whose search
\* succeeded at once, after a request that had succeeded.
C24_Witness ==
    /\ Returned /\ sticky_proxies
    /\ Len(log) = 2 /\ Len(visited) = 1 /\ provider_retries = 1
    /\ ~log[1].ok /\ log[2].ok
    /\ _last_successful_provider = visited[1]
    /\ proxies = success_proxy

\* C25: backoff sleeps are taken only between two sends of one request: when
\* a request has returned it has slept at most once less than it has sent,
\* so no sleep follows its final send, neither after the last provider is
\* exhausted nor after the loop without providers reaches max_retries.
C25_SleepsBetweenSends ==
    Returned => (sends = 0 /\ sleeps = 0) \/ sleeps <= sends - 1

====
